---- MODULE Spec2Model ----
(***************************************************************************)
(* NPCC backend (app.py): the Flask request handlers over one shared       *)
(* PolicyEngine and one shared UrbanImpactGenerator.                       *)
(*                                                                         *)
(* One action per route handler.  A handler runs to completion in one      *)
(* step; the external calls it makes on the way (policy engine, Gemini,    *)
(* image generator) are recorded, in order, in `calls`.                    *)
(*                                                                         *)
(* Money is in tenths of $B (1.2 $B per unit = 12), temperatures of the    *)
(* baseline in tenths of a degree (1.2 C = 12).                            *)
(*                                                                         *)
(* backend/core/engine.py and backend/core/image_generator.py are imported *)
(* by app.py but are not among the source files.  The engine is modelled   *)
(* from the specification's description and from the values the test       *)
(* suite states; what neither states (the carbon-tax cost coefficient, the *)
(* mitigation coefficients) is left open and chosen at construction.       *)
(***************************************************************************)
EXTENDS Integers, Sequences, FiniteSets, TLC

VARIABLES
    engine,     \* the module-level PolicyEngine instance (app.py:26)
    req,        \* the request being answered: route and parsed body
    resp,       \* the response the handler returned
    calls,      \* external calls made while answering req, in order
    memo        \* ghost: one earlier /api/calculate input and its result

vars == <<engine, req, resp, calls, memo>>

----------------------------------------------------------------------------
(* Request bodies *)

\* The four levers the test suite sends; the other four are always absent.
MainLevers == {"ev_adoption", "renewable_energy", "carbon_tax", "reforestation"}

OtherLevers ==
    {"public_transport", "industrial_controls", "green_buildings", "waste_management"}

\* Lever settings tried (the scale is 0..100).
LeverValues == {0, 1, 50, 100}

\* A JSON object of lever settings: any subset of the levers may be present.
LeverObjects == UNION {[S -> LeverValues] : S \in SUBSET MainLevers}

EmptyObject == [k \in {} |-> 0]

\* A JSON value that stands where policy inputs are expected:
\*   object    an object of numeric lever settings (possibly {})
\*   extraobject an object with members but no lever, e.g. {"note": "x"}
\*   strobject an object with a lever set to a string, e.g. {"ev_adoption": "x"}
\*   array     a non-empty array, e.g. [1]
PolicyValue(k, f) == [kind |-> k, levers |-> f]

PolicyValues ==
    {PolicyValue("object", f) : f \in LeverObjects}
        \cup {PolicyValue("strobject", EmptyObject), PolicyValue("array", EmptyObject),
              PolicyValue("extraobject", EmptyObject)}

AbsentValue == PolicyValue("absent", EmptyObject)

\* What the client sent:
\*   nobody   Content-Type: application/json and an empty body
\*   nonjson  a body whose Content-Type is not JSON
\*   null     the JSON document null
\*   value    a JSON object or array: `top`
\* For the urban-impact routes `top` is the enclosing object, `pi` its
\* "policy_inputs" member (AbsentValue when the key is missing) and `extra`
\* says whether it has other members (scenario, style, ...).
Body(k, t, p, x) == [kind |-> k, top |-> t, pi |-> p, extra |-> x]

NoBody == Body("nobody", AbsentValue, AbsentValue, FALSE)

NonJsonBody == Body("nonjson", AbsentValue, AbsentValue, FALSE)

NullBody == Body("null", AbsentValue, AbsentValue, FALSE)

PlainBodies == {NoBody, NonJsonBody, NullBody}

\* Bodies sent to /api/calculate and /api/news: the levers at top level.
LeverBodies ==
    PlainBodies \cup {Body("value", v, AbsentValue, FALSE) : v \in PolicyValues}

\* Policy inputs tried inside an urban-impact request.
UrbanInputs ==
    {AbsentValue,
     PolicyValue("object", EmptyObject),
     PolicyValue("object", [k \in MainLevers |-> 0]),
     PolicyValue("object", [k \in MainLevers |-> 100]),
     PolicyValue("object", [k \in {"ev_adoption"} |-> 1]),
     PolicyValue("strobject", EmptyObject),
     PolicyValue("array", EmptyObject)}

UrbanBodies ==
    PlainBodies
        \cup {Body("value", PolicyValue("object", EmptyObject), p, x) :
                p \in UrbanInputs, x \in BOOLEAN}
        \cup {Body("value", PolicyValue("array", EmptyObject), AbsentValue, FALSE)}

\* Bodies sent to /api/news: the handler only echoes the levers.
NewsBodies ==
    PlainBodies
        \cup {Body("value", PolicyValue("object", f), AbsentValue, FALSE) :
                f \in {EmptyObject, [k \in MainLevers |-> 100],
                        [k \in {"carbon_tax"} |-> 1]}}
        \cup {Body("value", PolicyValue("strobject", EmptyObject), AbsentValue, FALSE),
              Body("value", PolicyValue("array", EmptyObject), AbsentValue, FALSE)}

Methods == {"GET", "POST"}

RegisteredPaths ==
    {"/api/init", "/api/calculate", "/api/news", "/api/urban-impact/generate",
     "/api/urban-impact/quick-generate", "/health"}

Paths == RegisteredPaths \cup {"/api/invalid-endpoint"}

Request(m, p, b) == [method |-> m, path |-> p, body |-> b]

NoRequest == Request("none", "none", NullBody)

----------------------------------------------------------------------------
(* flask.Request.get_json and Python truthiness *)

Returned(v) == [ok |-> TRUE, val |-> v, exc |-> "none"]

Raised(e) == [ok |-> FALSE, val |-> NullBody, exc |-> e]

\* request.get_json(): an empty or malformed body under a JSON content type
\* raises BadRequest; a non-JSON content type yields None (Flask < 2.1) or
\* raises UnsupportedMediaType (Flask >= 2.1): the version is not pinned.
GetJsonOutcomes(body) ==
    CASE body.kind = "nobody" -> {Raised("BadRequest")}
      [] body.kind = "nonjson" -> {Returned(NullBody), Raised("UnsupportedMediaType")}
      [] OTHER -> {Returned(body)}

\* A slip: an object whose levers are all 0 counts as missing too.
Falsy_AllZero(body) ==
    \/ body.kind = "null"
    \/ /\ body.kind = "value"
       /\ body.top.kind = "object"
       /\ \A k \in DOMAIN body.top.levers : body.top.levers[k] = 0
       /\ body.pi.kind = "absent"
       /\ ~body.extra

\* A slip: only a missing document counts (`if policy_inputs is None`).
Falsy_OnlyNone(body) == body.kind = "null"

\* `not data` on what get_json returned: None, {} and [] are falsy.
Falsy(body) ==
    \/ body.kind = "null"
    \/ /\ body.kind = "value"
       /\ body.top.kind = "object"
       /\ DOMAIN body.top.levers = {}
       /\ body.pi.kind = "absent"
       /\ ~body.extra

\* dict.get(key, default) on an object of lever settings.
Get(f, k, default) == IF k \in DOMAIN f THEN f[k] ELSE default

----------------------------------------------------------------------------
(* PolicyEngine (backend/core/engine.py, not among the source files) *)

EV_COST == 12

RENEWABLE_COST == 25

REFORESTATION_COST == 6

BANKRUPTCY_THRESHOLD == 10000

BASELINE_YEAR == 2026

BASELINE_TEMPERATURE == 12

BASELINE_DEBT == 0

\* Not stated anywhere: the carbon tax may cost, be neutral or raise revenue
\* (the test calls a zero carbon tax "No revenue"), and the mitigation per
\* unit is only known to be a fixed coefficient.
CarbonTaxCostCandidates == {-8, 0, 8}

MitigationCandidates == {-2, -1}

Engines ==
    [year : {BASELINE_YEAR},
     temperature_anomaly : {BASELINE_TEMPERATURE},
     national_debt : {BASELINE_DEBT},
     carbon_tax_cost : CarbonTaxCostCandidates,
     mitigation : MitigationCandidates]

\* PolicyEngine.get_baseline_state()
get_baseline_state(e) ==
    [kind |-> "baseline",
     year |-> e.year,
     temperature_anomaly |-> e.temperature_anomaly,
     national_debt |-> e.national_debt,
     bau_projection |-> "list",
     historical_data |-> "list"]

CostCoefficient(e, l) ==
    CASE l = "ev_adoption" -> EV_COST
      [] l = "renewable_energy" -> RENEWABLE_COST
      [] l = "carbon_tax" -> e.carbon_tax_cost
      [] l = "reforestation" -> REFORESTATION_COST

PolicyCost(e, f, l) == Get(f, l, 0) * CostCoefficient(e, l)

PolicyMitigation(e, f, l) == Get(f, l, 0) * e.mitigation

TotalCost(e, f) ==
    PolicyCost(e, f, "ev_adoption") + PolicyCost(e, f, "renewable_energy")
        + PolicyCost(e, f, "carbon_tax") + PolicyCost(e, f, "reforestation")

TotalMitigation(e, f) ==
    PolicyMitigation(e, f, "ev_adoption") + PolicyMitigation(e, f, "renewable_energy")
        + PolicyMitigation(e, f, "carbon_tax") + PolicyMitigation(e, f, "reforestation")

\* A slip: the threshold a digit short ($100B).
BankruptcyFlag_DroppedDigit(total) == total > 1000

BankruptcyFlag(total) == total > BANKRUPTCY_THRESHOLD

\* Share of the total cost, in whole percent; 0 when nothing is spent.
Percentage(cost, total) == IF total = 0 THEN 0 ELSE (cost * 100) \div total

\* Mitigation per dollar spent; 0 when the policy costs nothing.
Efficiency(mitigation, cost) == IF cost = 0 THEN 0 ELSE (mitigation * 1000) \div cost

ImpactRecord(e, f) ==
    [kind |-> "impact",
     total_cost |-> TotalCost(e, f),
     temperature_mitigation |-> TotalMitigation(e, f),
     national_debt |-> e.national_debt + TotalCost(e, f),
     bankruptcy_flag |-> BankruptcyFlag(TotalCost(e, f)),
     policy_breakdown |-> [l \in MainLevers |-> PolicyCost(e, f, l)],
     fiscal_treemap |->
        [l \in MainLevers |-> Percentage(PolicyCost(e, f, l), TotalCost(e, f))],
     efficiency_index |->
        [l \in MainLevers |->
            Efficiency(PolicyMitigation(e, f, l), PolicyCost(e, f, l))]]

NoData == [kind |-> "none"]

EngineReturned(v) == [ok |-> TRUE, val |-> v, exc |-> "none"]

EngineRaised(x) == [ok |-> FALSE, val |-> NoData, exc |-> x]

\* PolicyEngine.calculate_impacts(policy_inputs): arithmetic over the levers.
\* An array has no .get, a string lever cannot be multiplied by a float.
calculate_impacts(e, pv) ==
    CASE pv.kind = "array" -> EngineRaised("AttributeError")
      [] pv.kind = "strobject" -> EngineRaised("TypeError")
      [] OTHER -> EngineReturned(ImpactRecord(e, pv.levers))

\* The engine instance after calculate_impacts: the calculation is pure.
EngineAfterCalculate(e, pv) == e

----------------------------------------------------------------------------
(* Responses and the record of external calls *)

NoError == [prefix |-> "", exc |-> "none"]

\* An error string: a fixed prefix followed by str(e).
Error(prefix, e) == [prefix |-> prefix, exc |-> e]

\* A slip: an error branch copied from a success branch, "success" left True.
Failure_SuccessTrue(code, err) ==
    [status |-> code, success |-> TRUE, error |-> err, data |-> NoData]

\* jsonify({"success": ..., "data" | "error": ...}), status
Success(d) == [status |-> 200, success |-> TRUE, error |-> NoError, data |-> d]

Failure(code, err) == [status |-> code, success |-> FALSE, error |-> err, data |-> NoData]

NoResponse == [status |-> 0, success |-> FALSE, error |-> NoError, data |-> NoData]

\* One external call: the callee, the policy inputs handed to it, the
\* calculation_result handed to it (image generator only), what it returned
\* (engine only) and whether it succeeded (for generate_content: the call
\* returned and response.text could be read).
Call(fn, pv, given, returned, ok) ==
    [fn |-> fn, policy_inputs |-> pv, calculation_result |-> given,
     returned |-> returned, ok |-> ok]

\* What a handler did: its response, its calls in order, the engine after it.
Ran(r, cs, e) == [resp |-> r, calls |-> cs, engine |-> e]

CountCalls(cs, fns) == Cardinality({i \in 1..Len(cs) : cs[i].fn \in fns})

----------------------------------------------------------------------------
(* Routing (app.py:36, 55, 86, 181, 248, 294 and the 404 handler) *)

AllowedMethod(path) ==
    IF path \in {"/api/init", "/health"} THEN "GET" ELSE "POST"

\* The view function a request is dispatched to.
Route(method, path) ==
    IF path \notin RegisteredPaths THEN "not_found"
    ELSE IF method # AllowedMethod(path) THEN "method_not_allowed"
    ELSE path

----------------------------------------------------------------------------
(* GET /api/init (app.py:36-52) *)

initialize_dashboard_run(e) == Ran(Success(get_baseline_state(e)), <<>>, e)

(* POST /api/calculate (app.py:55-83) *)

\* A slip: the handler keeps the resulting debt on the shared engine.
calculate_policy_impact_run_StoresDebt(e, gj) ==
    IF ~gj.ok THEN Ran(Failure(500, Error("", gj.exc)), <<>>, e)
    ELSE IF Falsy(gj.val)
        THEN Ran(Failure(400, Error("Missing policy inputs", "none")), <<>>, e)
    ELSE LET out == calculate_impacts(e, gj.val.top)
             cs == <<Call("calculate_impacts", gj.val.top, NoData, out.val, out.ok)>>
         IN  IF out.ok
                THEN Ran(Success(out.val), cs,
                         [e EXCEPT !.national_debt = out.val.national_debt])
             ELSE Ran(Failure(500, Error("", out.exc)), cs, e)

\* gj is what request.get_json() did.
calculate_policy_impact_run(e, gj) ==
    IF ~gj.ok THEN Ran(Failure(500, Error("", gj.exc)), <<>>, e)
    ELSE IF Falsy(gj.val)
        THEN Ran(Failure(400, Error("Missing policy inputs", "none")), <<>>, e)
    ELSE LET out == calculate_impacts(e, gj.val.top)
             cs == <<Call("calculate_impacts", gj.val.top, NoData, out.val, out.ok)>>
             after == EngineAfterCalculate(e, gj.val.top)
         IN  IF out.ok THEN Ran(Success(out.val), cs, after)
             ELSE Ran(Failure(500, Error("", out.exc)), cs, after)

----------------------------------------------------------------------------
(* POST /api/news (app.py:86-178) *)

MaxTextLen == 4

\* Characters of a model reply: double quote, single quote, blank, a letter.
Chars == {"dq", "sq", "sp", "a"}

Texts == UNION {[1..n -> Chars] : n \in 0..MaxTextLen}

RECURSIVE LStrip(_)
LStrip(t) == IF t # <<>> /\ Head(t) = "sp" THEN LStrip(Tail(t)) ELSE t

RECURSIVE RStrip(_)
RStrip(t) ==
    IF t # <<>> /\ t[Len(t)] = "sp" THEN RStrip(SubSeq(t, 1, Len(t) - 1)) ELSE t

\* str.strip()
Strip(t) == RStrip(LStrip(t))

StartsWith(t, c) == t # <<>> /\ t[1] = c

EndsWith(t, c) == t # <<>> /\ t[Len(t)] = c

\* headline[1:-1]
Inner(t) == SubSeq(t, 2, Len(t) - 1)

\* app.py:150-153: drop one pair of double quotes, then one pair of single quotes.
Unquote(t, c) == IF StartsWith(t, c) /\ EndsWith(t, c) THEN Inner(t) ELSE t

Headline(text) == Unquote(Unquote(Strip(text), "dq"), "sq")

\* What the Gemini client does in one request: the model object cannot be
\* built, generate_content raises, reading response.text raises, or a text
\* comes back.
GeminiOutcomes ==
    {[stage |-> st, text |-> <<>>] :
        st \in {"model_raises", "generate_raises", "text_raises"}}
        \cup {[stage |-> "ok", text |-> t] : t \in Texts}

\* The levels the handler reads with data.get(key, 0), echoed as policy_summary.
PolicySummary(f) ==
    [l \in MainLevers \cup OtherLevers \cup {"temperature_impact", "fiscal_cost"} |->
        Get(f, l, 0)]

\* A slip: a failed generation is tried once more.
GenerateAttempts_RetryOnce(gem) == IF gem.stage = "ok" THEN 1 ELSE 2

\* How often generate_content is tried before the handler gives up.
GenerateAttempts(gem) == 1

generate_news_headline_run(e, gj, gem) ==
    IF ~gj.ok THEN Ran(Failure(500, Error("AI generation failed: ", gj.exc)), <<>>, e)
    ELSE IF Falsy(gj.val)
        THEN Ran(Failure(400, Error("Missing input data", "none")), <<>>, e)
    ELSE IF gj.val.top.kind = "array"
        THEN Ran(Failure(500, Error("AI generation failed: ", "AttributeError")), <<>>, e)
    ELSE IF gem.stage = "model_raises"
        THEN Ran(Failure(500, Error("AI generation failed: ", "GeminiError")), <<>>, e)
    ELSE LET cs == [i \in 1..GenerateAttempts(gem) |->
                        Call("generate_content", gj.val.top, NoData, NoData,
                             gem.stage = "ok")]
         IN  IF gem.stage \in {"generate_raises", "text_raises"}
                THEN Ran(Failure(500, Error("AI generation failed: ", "GeminiError")), cs, e)
             ELSE Ran(Success([kind |-> "news",
                               headline |-> Headline(gem.text),
                               policy_summary |-> PolicySummary(gj.val.top.levers)]),
                      cs, e)

----------------------------------------------------------------------------
(* POST /api/urban-impact/generate and /quick-generate (app.py:181-291) *)

GeneratorOutcomes == {"ok", "raises"}

\* data.get("policy_inputs", {})
PolicyInputsOf(data) ==
    IF data.pi.kind = "absent" THEN PolicyValue("object", EmptyObject) ELSE data.pi

\* A slip: the images are generated first, the calculation afterwards.
UrbanRun_GeneratesFirst(e, gj, gen, method, prefix, missing) ==
    IF ~gj.ok THEN Ran(Failure(500, Error(prefix, gj.exc)), <<>>, e)
    ELSE IF Falsy(gj.val)
        THEN Ran(Failure(400, Error(missing, "none")), <<>>, e)
    ELSE IF gj.val.top.kind = "array"
        THEN Ran(Failure(500, Error(prefix, "AttributeError")), <<>>, e)
    ELSE LET pv == PolicyInputsOf(gj.val)
             out == calculate_impacts(e, pv)
             c1 == Call("calculate_impacts", pv, NoData, out.val, out.ok)
             c2 == Call(method, pv, NoData, NoData, gen = "ok")
         IN  IF gen = "raises"
                THEN Ran(Failure(500, Error(prefix, "ImageError")), <<c2>>, e)
             ELSE IF ~out.ok THEN Ran(Failure(500, Error(prefix, out.exc)), <<c2, c1>>, e)
             ELSE Ran(Success([kind |-> "images"]), <<c2, c1>>, e)

\* A slip: the handler keeps the resulting debt on the shared engine.
UrbanRun_StoresDebt(e, gj, gen, method, prefix, missing) ==
    IF ~gj.ok THEN Ran(Failure(500, Error(prefix, gj.exc)), <<>>, e)
    ELSE IF Falsy(gj.val)
        THEN Ran(Failure(400, Error(missing, "none")), <<>>, e)
    ELSE IF gj.val.top.kind = "array"
        THEN Ran(Failure(500, Error(prefix, "AttributeError")), <<>>, e)
    ELSE LET pv == PolicyInputsOf(gj.val)
             out == calculate_impacts(e, pv)
             c1 == Call("calculate_impacts", pv, NoData, out.val, out.ok)
             c2 == Call(method, pv, out.val, NoData, gen = "ok")
             after == [e EXCEPT !.national_debt = out.val.national_debt]
         IN  IF ~out.ok THEN Ran(Failure(500, Error(prefix, out.exc)), <<c1>>, e)
             ELSE IF gen = "raises"
                THEN Ran(Failure(500, Error(prefix, "ImageError")), <<c1, c2>>, after)
             ELSE Ran(Success([kind |-> "images"]), <<c1, c2>>, after)

\* The body shared by both handlers: they differ in the generator method
\* they call and in the prefix of the error they report.
UrbanRun(e, gj, gen, method, prefix, missing) ==
    IF ~gj.ok THEN Ran(Failure(500, Error(prefix, gj.exc)), <<>>, e)
    ELSE IF Falsy(gj.val)
        THEN Ran(Failure(400, Error(missing, "none")), <<>>, e)
    ELSE IF gj.val.top.kind = "array"
        THEN Ran(Failure(500, Error(prefix, "AttributeError")), <<>>, e)
    ELSE LET pv == PolicyInputsOf(gj.val)
             out == calculate_impacts(e, pv)
             after == EngineAfterCalculate(e, pv)
             c1 == Call("calculate_impacts", pv, NoData, out.val, out.ok)
             c2 == Call(method, pv, out.val, NoData, gen = "ok")
         IN  IF ~out.ok THEN Ran(Failure(500, Error(prefix, out.exc)), <<c1>>, after)
             ELSE IF gen = "raises"
                THEN Ran(Failure(500, Error(prefix, "ImageError")), <<c1, c2>>, after)
             ELSE Ran(Success([kind |-> "images"]), <<c1, c2>>, after)

generate_urban_impact_run(e, gj, gen) ==
    UrbanRun(e, gj, gen, "generate_comparison", "Image generation failed: ",
             "Missing request data")

quick_generate_urban_impact_run(e, gj, gen) ==
    UrbanRun(e, gj, gen, "quick_generate", "Quick generation failed: ",
             "Missing request data")

----------------------------------------------------------------------------
(* GET /health, the 404 handler, and Flask's own 405 (app.py:294-318) *)

health_check_run(e) ==
    Ran([status |-> 200, success |-> FALSE, error |-> NoError,
         data |-> [kind |-> "health"]], <<>>, e)

\* A slip: the two error handlers' bodies exchanged.
not_found_run_Exchanged(e) ==
    Ran(Failure(404, Error("Internal server error", "none")), <<>>, e)

not_found_run(e) == Ran(Failure(404, Error("Endpoint not found", "none")), <<>>, e)

method_not_allowed_run(e) ==
    Ran([status |-> 405, success |-> FALSE, error |-> NoError,
         data |-> [kind |-> "html"]], <<>>, e)

----------------------------------------------------------------------------
(* The server: one request is answered at a time (the handlers share only  *)
(* policy_engine and urban_generator, which app.py never assigns to, so     *)
(* requests do not interact through app.py).  A handler takes the           *)
(* waiting server to the answered state; send_response returns it to        *)
(* waiting, with nothing of the request kept but the shared instances.      *)

\* since: "fresh" while the remembered request is being answered, "sent"
\* once its response is out, "other" once the engine has since been called
\* with different policy inputs.
NoMemo == [set |-> FALSE, input |-> NullBody, result |-> NoData, since |-> "fresh"]

MemoAfter(m, cs) ==
    IF /\ m.set
       /\ \E i \in 1..Len(cs) :
            cs[i].fn = "calculate_impacts" /\ cs[i].policy_inputs # m.input.top
    THEN [m EXCEPT !.since = "other"]
    ELSE m

\* Inputs whose first result is remembered, to compare later results with.
ProbeInputs ==
    {Body("value", PolicyValue("object", f), AbsentValue, FALSE) :
        f \in {[k \in MainLevers |-> 0],
               [k \in MainLevers |-> 1],
               [k \in MainLevers |-> IF k = "carbon_tax" THEN 0 ELSE 100]}}

Init ==
    /\ engine \in Engines
    /\ req = NoRequest
    /\ resp = NoResponse
    /\ calls = <<>>
    /\ memo = NoMemo

Waiting == req = NoRequest

Finish(rq, r) ==
    /\ req' = rq
    /\ resp' = r.resp
    /\ calls' = r.calls
    /\ engine' = r.engine

initialize_dashboard ==
    /\ Waiting
    /\ \E m \in Methods, p \in Paths :
            /\ Route(m, p) = "/api/init"
            /\ Finish(Request(m, p, NullBody), initialize_dashboard_run(engine))
            /\ UNCHANGED memo

calculate_policy_impact ==
    /\ Waiting
    /\ \E m \in Methods, p \in Paths, b \in LeverBodies :
            /\ Route(m, p) = "/api/calculate"
            /\ \E gj \in GetJsonOutcomes(b) :
                LET r == calculate_policy_impact_run(engine, gj)
                IN  /\ Finish(Request(m, p, b), r)
                    /\ \/ memo' = MemoAfter(memo, r.calls)
                       \/ /\ ~memo.set
                          /\ r.resp.status = 200
                          /\ b \in ProbeInputs
                          /\ memo' = [set |-> TRUE, input |-> b,
                                      result |-> r.resp.data, since |-> "fresh"]

generate_news_headline ==
    /\ Waiting
    /\ \E m \in Methods, p \in Paths, b \in NewsBodies, gem \in GeminiOutcomes :
            /\ Route(m, p) = "/api/news"
            /\ \E gj \in GetJsonOutcomes(b) :
                Finish(Request(m, p, b), generate_news_headline_run(engine, gj, gem))
            /\ UNCHANGED memo

generate_urban_impact ==
    /\ Waiting
    /\ \E m \in Methods, p \in Paths, b \in UrbanBodies, gen \in GeneratorOutcomes :
            /\ Route(m, p) = "/api/urban-impact/generate"
            /\ \E gj \in GetJsonOutcomes(b) :
                LET r == generate_urban_impact_run(engine, gj, gen)
                IN  Finish(Request(m, p, b), r) /\ memo' = MemoAfter(memo, r.calls)

quick_generate_urban_impact ==
    /\ Waiting
    /\ \E m \in Methods, p \in Paths, b \in UrbanBodies, gen \in GeneratorOutcomes :
            /\ Route(m, p) = "/api/urban-impact/quick-generate"
            /\ \E gj \in GetJsonOutcomes(b) :
                LET r == quick_generate_urban_impact_run(engine, gj, gen)
                IN  Finish(Request(m, p, b), r) /\ memo' = MemoAfter(memo, r.calls)

health_check ==
    /\ Waiting
    /\ \E m \in Methods, p \in Paths :
            /\ Route(m, p) = "/health"
            /\ Finish(Request(m, p, NullBody), health_check_run(engine))
            /\ UNCHANGED memo

not_found ==
    /\ Waiting
    /\ \E m \in Methods, p \in Paths :
            /\ Route(m, p) = "not_found"
            /\ Finish(Request(m, p, NullBody), not_found_run(engine))
            /\ UNCHANGED memo

method_not_allowed ==
    /\ Waiting
    /\ \E m \in Methods, p \in Paths :
            /\ Route(m, p) = "method_not_allowed"
            /\ Finish(Request(m, p, NullBody), method_not_allowed_run(engine))
            /\ UNCHANGED memo

send_response ==
    /\ ~Waiting
    /\ req' = NoRequest
    /\ resp' = NoResponse
    /\ calls' = <<>>
    /\ memo' = IF memo.set /\ memo.since = "fresh"
                THEN [memo EXCEPT !.since = "sent"] ELSE memo
    /\ UNCHANGED engine

Next ==
    \/ send_response
    \/ initialize_dashboard
    \/ calculate_policy_impact
    \/ generate_news_headline
    \/ generate_urban_impact
    \/ quick_generate_urban_impact
    \/ health_check
    \/ not_found
    \/ method_not_allowed

Spec == Init /\ [][Next]_vars

----------------------------------------------------------------------------
(* Properties *)

\* The server has answered a request of the handler registered at `path`.
Answered(path) == ~Waiting /\ Route(req.method, req.path) = path

LeversBody(f) == Body("value", PolicyValue("object", f), AbsentValue, FALSE)

ZeroPolicies == LeversBody([k \in MainLevers |-> 0])

\* The payload of test_calculate_bankruptcy.
MaximumPolicies ==
    LeversBody([k \in MainLevers |-> IF k = "carbon_tax" THEN 0 ELSE 100])

EngineCalls == CountCalls(calls, {"calculate_impacts"})

\* C1 (as claimed): a POST to /api/calculate with Content-Type:
\* application/json and no body is answered 400, and calculate_impacts is
\* not called.
C1_MissingBodyAnswered400 ==
    (Answered("/api/calculate") /\ req.body = NoBody)
        => (resp.status = 400 /\ EngineCalls = 0)

GeneratorMethods == {"generate_comparison", "quick_generate"}

GeminiCalls == CountCalls(calls, {"generate_content"})

GeneratorCalls == CountCalls(calls, GeneratorMethods)

FailedCall(fns) == \E i \in 1..Len(calls) : calls[i].fn \in fns /\ ~calls[i].ok

C7_NoRetry ==
    ~Waiting
        => /\ GeminiCalls <= 1
           /\ GeneratorCalls <= 1
           /\ (Answered("/api/news") /\ FailedCall({"generate_content"}))
                => /\ resp.status = 500
                   /\ ~resp.success
                   /\ resp.error.prefix = "AI generation failed: "
                   /\ GeminiCalls = 1
           /\ FailedCall(GeneratorMethods)
                => (resp.status = 500 /\ ~resp.success /\ GeneratorCalls = 1)

C7_Witness ==
    /\ Answered("/api/news")
    /\ FailedCall({"generate_content"})
    /\ GeminiCalls = 1
    /\ resp.status = 500

\* C9: a request to a path that is no registered route is answered 404 with
\* {success: false, error: "Endpoint not found"}, and nothing is called.
C9_UnknownPath404 ==
    (~Waiting /\ req.path \notin RegisteredPaths)
        => /\ resp.status = 404
           /\ ~resp.success
           /\ resp.error = Error("Endpoint not found", "none")
           /\ calls = <<>>

C9_Witness ==
    /\ req.method = "GET"
    /\ req.path = "/api/invalid-endpoint"
    /\ resp.status = 404

UrbanPrefix ==
    IF Answered("/api/urban-impact/generate") THEN "Image generation failed: "
    ELSE "Quick generation failed: "

\* C10: in both urban-impact handlers every image-generator call comes after
\* a calculate_impacts call on the request's policy_inputs that returned, and
\* is handed what that call returned; when calculate_impacts raises, the
\* generator is not called and the answer is 500, success false, with the
\* handler's own error prefix.
C10_CalculateBeforeGenerate ==
    (Answered("/api/urban-impact/generate") \/ Answered("/api/urban-impact/quick-generate"))
        => /\ \A i \in 1..Len(calls) :
                calls[i].fn \in GeneratorMethods
                    => \E j \in 1..(i - 1) :
                        /\ calls[j].fn = "calculate_impacts"
                        /\ calls[j].ok
                        /\ calls[j].policy_inputs = PolicyInputsOf(req.body)
                        /\ calls[i].policy_inputs = calls[j].policy_inputs
                        /\ calls[i].calculation_result = calls[j].returned
           /\ FailedCall({"calculate_impacts"})
                => /\ GeneratorCalls = 0
                   /\ resp.status = 500
                   /\ ~resp.success
                   /\ resp.error.prefix = UrbanPrefix

C10_Witness ==
    /\ Answered("/api/urban-impact/quick-generate")
    /\ FailedCall({"calculate_impacts"})
    /\ GeneratorCalls = 0
    /\ resp.error.prefix = "Quick generation failed: "

Quoted(t, c) == Len(t) >= 2 /\ StartsWith(t, c) /\ EndsWith(t, c)

\* C11 (as claimed): the headline of a successful /api/news answer, when it
\* has at least 2 characters, neither starts and ends with a double quote
\* nor starts and ends with a single quote.
C11_HeadlineUnquoted ==
    (Answered("/api/news") /\ resp.status = 200)
        => (~Quoted(resp.data.headline, "dq") /\ ~Quoted(resp.data.headline, "sq"))

ApiHandlers ==
    {"/api/init", "/api/calculate", "/api/news", "/api/urban-impact/generate",
     "/api/urban-impact/quick-generate"}

\* C12: in every response of the handlers of /api/init, /api/calculate,
\* /api/news and the two urban-impact routes, success is true exactly when
\* the status is 200; a 400 or 500 has success false and an error; a
\* response with success true carries data.
C12_SuccessIffStatus200 ==
    (\E p \in ApiHandlers : Answered(p))
        => /\ resp.status \in {200, 400, 500}
           /\ resp.success <=> (resp.status = 200)
           /\ resp.status \in {400, 500} => (~resp.success /\ resp.error # NoError)
           /\ resp.success => resp.data # NoData

\* A handler answered 500 after its external call failed.
C12_Witness ==
    /\ Answered("/api/urban-impact/generate")
    /\ resp.status = 500
    /\ ~resp.success
    /\ resp.error = Error("Image generation failed: ", "ImageError")

\* The JSON document {}.
EmptyRecord == PolicyValue("object", EmptyObject)

UrbanAnswered ==
    Answered("/api/urban-impact/generate") \/ Answered("/api/urban-impact/quick-generate")

\* A non-empty JSON object without a "policy_inputs" member.
OmitsPolicyInputs(b) ==
    b.kind = "value" /\ b.top.kind = "object" /\ b.pi.kind = "absent" /\ b.extra

EngineCalledWith(pv) ==
    \E i \in 1..Len(calls) :
        calls[i].fn = "calculate_impacts" /\ calls[i].policy_inputs = pv

\* C13: /api/calculate given {} answers 400 "Missing policy inputs" without
\* calling the engine; an urban-impact handler given a non-empty body without
\* policy_inputs calls calculate_impacts with {}; so the engine is called
\* with the empty record only by the urban-impact handlers.
C13_EmptyInputsOnlyViaUrban ==
    /\ (Answered("/api/calculate") /\ req.body = LeversBody(EmptyObject))
        => /\ resp = Failure(400, Error("Missing policy inputs", "none"))
           /\ EngineCalls = 0
    /\ (UrbanAnswered /\ OmitsPolicyInputs(req.body))
        => (EngineCalls = 1 /\ EngineCalledWith(EmptyRecord))
    /\ EngineCalledWith(EmptyRecord) => UrbanAnswered

C13_Witness ==
    /\ Answered("/api/urban-impact/quick-generate")
    /\ OmitsPolicyInputs(req.body)
    /\ EngineCalledWith(EmptyRecord)
    /\ resp.status = 200

====
